---- MODULE Spec2Model ----
(***************************************************************************)
(* News-Agent: the deduplication engine (src/processing/deduplicator.py).  *)
(*                                                                         *)
(* Strings are sequences of one-character strings.  Python list indexes    *)
(* are 0-based; the model's are 1-based (index k here is k-1 there).       *)
(* A list of articles holds references: url_deduped and result hold the    *)
(* positions of the input list whose article instances they refer to.      *)
(* A float similarity is the exact ratio <<numerator, denominator>>; the   *)
(* quotient of two small integers and a decimal literal of the same value  *)
(* round to the same double, so comparing the ratios is comparing the      *)
(* floats.                                                                 *)
(***************************************************************************)
EXTENDS Integers, Sequences, FiniteSets, TLC

VARIABLES articles, similarity_threshold, pc, pos, seen_urls, url_deduped, result

\* a second call of deduplicate, running at the same time: the record of its
\* parameters and locals
VARIABLES peer

\* a call of _select_articles_for_ai (src/processing/ai_analyzer.py): its
\* parameters articles and max_count, the list it returns (as positions of
\* its input) and whether it has returned
VARIABLES ai_articles, max_count, selected, select_pc

\* a call of run (src/main.py): its parameter force, its position, its locals
\* all_articles, relevant, deduped (run_deduped), report_data and report_text, the loop
\* variable attempt of _call_openai, and the calls made so far with their
\* arguments and results
VARIABLES run_pc, force, all_articles, relevant, run_deduped, report_data,
          report_text, attempt, log

dedup_vars == <<articles, similarity_threshold, pc, pos, seen_urls, url_deduped, result>>

select_vars == <<ai_articles, max_count, selected, select_pc>>

run_vars ==
    <<run_pc, force, all_articles, relevant, run_deduped, report_data, report_text,
      attempt, log>>

vars == <<dedup_vars, peer, select_vars, run_vars>>

\* what lies outside deduplicate
elsewhere == <<select_vars, run_vars>>

\* what a step of the first deduplicate call leaves alone
others == <<peer, elsewhere>>

\* no second call is running
NoCall == [pc |-> "none"]

\* _select_articles_for_ai is not called
NoSelect ==
    /\ ai_articles = <<>>
    /\ max_count = 0
    /\ selected = <<>>
    /\ select_pc = "idle"

\* the value of a local that is not assigned yet
Unset == [unset |-> TRUE]

\* run is not called
NoRun ==
    /\ run_pc = "none"
    /\ force = FALSE
    /\ all_articles = <<>>
    /\ relevant = <<>>
    /\ run_deduped = <<>>
    /\ report_data = Unset
    /\ report_text = Unset
    /\ attempt = 0
    /\ log = <<>>

\* nothing runs outside deduplicate
Elsewhere == NoSelect /\ NoRun

\* nothing runs beside the one call of deduplicate
Idle == peer = NoCall /\ Elsewhere

(***************************************************************************)
(* Characters and string helpers (Python str methods).                     *)
(***************************************************************************)
UpperChars == <<"A","B","C","D","E","F","G","H","I","J","K","L","M",
                "N","O","P","Q","R","S","T","U","V","W","X","Y","Z">>

LowerChars == <<"a","b","c","d","e","f","g","h","i","j","k","l","m",
                "n","o","p","q","r","s","t","u","v","w","x","y","z">>

Digits == {"0","1","2","3","4","5","6","7","8","9"}

Range(s) == {s[k] : k \in DOMAIN s}

\* str.lower() on one character
LowerChar(c) ==
    IF \E k \in DOMAIN UpperChars : UpperChars[k] = c
    THEN LowerChars[CHOOSE k \in DOMAIN UpperChars : UpperChars[k] = c]
    ELSE c

\* str.lower()
Lower(s) == [k \in DOMAIN s |-> LowerChar(s[k])]

\* str.find for a set of characters: the first position holding one of cs, 0 if none
FindAny(s, cs) ==
    IF \E k \in DOMAIN s : s[k] \in cs
    THEN CHOOSE k \in DOMAIN s : s[k] \in cs /\ \A m \in 1..(k - 1) : s[m] \notin cs
    ELSE 0

\* the tail of s from position k on
From(s, k) == SubSeq(s, k, Len(s))

\* str.split(c): the pieces of s between occurrences of c
RECURSIVE Split(_, _)
Split(s, c) ==
    LET k == FindAny(s, {c}) IN
    IF k = 0 THEN <<s>>
    ELSE <<SubSeq(s, 1, k - 1)>> \o Split(From(s, k + 1), c)

\* str.join(c)
RECURSIVE Join(_, _)
Join(parts, c) ==
    IF parts = <<>> THEN <<>>
    ELSE IF Len(parts) = 1 THEN parts[1]
    ELSE parts[1] \o <<c>> \o Join(Tail(parts), c)

\* str.rstrip(c): drop every trailing c
RECURSIVE RStrip(_, _)
RStrip(s, c) ==
    IF s # <<>> /\ s[Len(s)] = c THEN RStrip(SubSeq(s, 1, Len(s) - 1), c) ELSE s

\* a in b for strings
IsSubstring(a, b) ==
    \E k \in 1..(Len(b) - Len(a) + 1) : SubSeq(b, k, k + Len(a) - 1) = a

(***************************************************************************)
(* urllib.parse as _normalize_url uses it.  The alphabet of the modelled   *)
(* links has no '%', ';', '[' or ']' and no control characters, and query  *)
(* names and values hold only letters, digits, '_', '.', '-', '+' and ' ': *)
(* percent escapes, path parameters and IPv6 hosts do not occur.           *)
(***************************************************************************)
SchemeChars == Range(LowerChars) \cup Range(UpperChars) \cup Digits \cup {"+", "-", "."}

\* F(v), with v evaluated once (an evaluation device, equal to F(v); it stands
\* for no code)
Bind(v, F(_)) == CHOOSE r \in {F(x) : x \in {v}} : TRUE

\* str.partition(c) without the separator: s up to the first c, and what follows it
Partition(s, c) ==
    IF FindAny(s, {c}) = 0 THEN <<s, <<>>>>
    ELSE <<SubSeq(s, 1, FindAny(s, {c}) - 1), From(s, FindAny(s, {c}) + 1)>>

\* urlsplit, the scheme: the lowercased text before the first ':' when it is
\* made of scheme characters, and the rest
SplitScheme(url) ==
    LET i == FindAny(url, {":"})
    IN  IF i > 1 /\ \A k \in 1..(i - 1) : url[k] \in SchemeChars
        THEN <<Lower(SubSeq(url, 1, i - 1)), From(url, i + 1)>>
        ELSE <<<<>>, url>>

\* urlsplit, the netloc: after a leading '//', the text up to the first of '/?#'
SplitNetloc(rest) ==
    IF Len(rest) >= 2 /\ rest[1] = "/" /\ rest[2] = "/"
    THEN LET n == FindAny(From(rest, 3), {"/", "?", "#"})
         IN  IF n = 0 THEN <<From(rest, 3), <<>>>>
             ELSE <<SubSeq(rest, 3, n + 1), From(rest, n + 2)>>
    ELSE <<<<>>, rest>>

\* urlparse(url): scheme, netloc, path, query, fragment
urlparse(url) ==
    Bind(SplitScheme(url), LAMBDA s :
    Bind(SplitNetloc(s[2]), LAMBDA n :
    Bind(Partition(n[2], "#"), LAMBDA f :
    Bind(Partition(f[1], "?"), LAMBDA q :
        [scheme |-> s[1], netloc |-> n[1], path |-> q[1],
         query |-> q[2], fragment |-> f[2]]))))

\* urlsplit raises ValueError("Invalid IPv6 URL") when the netloc has one of
\* '[' and ']' without the other (links with both are not modelled)
urlparse_raises(url) ==
    Bind(Range(SplitNetloc(SplitScheme(url)[2])[1]), LAMBDA chars :
        \/ "[" \in chars /\ "]" \notin chars
        \/ "]" \in chars /\ "[" \notin chars)

\* unquote(s.replace('+', ' ')) on the modelled alphabet
Unquote(s) == [k \in DOMAIN s |-> IF s[k] = "+" THEN " " ELSE s[k]]

\* quote_plus(s) on the modelled alphabet
QuotePlus(s) == [k \in DOMAIN s |-> IF s[k] = " " THEN "+" ELSE s[k]]

\* parse_qsl(qs): the (name, value) pairs of the fields that have a '=' and a
\* non-blank value (keep_blank_values is False)
RECURSIVE ParseQsl(_)
ParseQsl(fields) ==
    IF fields = <<>> THEN <<>>
    ELSE Bind(Partition(Head(fields), "="), LAMBDA nv :
             IF FindAny(Head(fields), {"="}) # 0 /\ nv[2] # <<>>
             THEN << <<Unquote(nv[1]), Unquote(nv[2])>> >>
             ELSE <<>>) \o ParseQsl(Tail(fields))

\* parse_qs(qs): a dict name -> list of values, as the sequence of its items in
\* insertion order (the order in which each name first occurs)
RECURSIVE GroupPairs(_, _)
GroupPairs(pairs, acc) ==
    IF pairs = <<>> THEN acc
    ELSE LET name == Head(pairs)[1]
             value == Head(pairs)[2]
         IN  IF \E k \in DOMAIN acc : acc[k][1] = name
             THEN LET k == CHOOSE m \in DOMAIN acc : acc[m][1] = name
                  IN  GroupPairs(Tail(pairs), [acc EXCEPT ![k] = <<name, Append(acc[k][2], value)>>])
             ELSE GroupPairs(Tail(pairs), Append(acc, <<name, <<value>>>>))

parse_qs(qs) == IF qs = <<>> THEN <<>> ELSE GroupPairs(ParseQsl(Split(qs, "&")), <<>>)

\* urlencode(params, doseq=True): name=value for every value of every item, joined by '&'
RECURSIVE EncodeItems(_)
EncodeItems(items) ==
    IF items = <<>> THEN <<>>
    ELSE LET name == Head(items)[1]
             values == Head(items)[2]
         IN  [k \in DOMAIN values |-> QuotePlus(name) \o <<"=">> \o QuotePlus(values[k])]
             \o EncodeItems(Tail(items))

urlencode(items) == Join(EncodeItems(items), "&")

tracking_keys ==
    { <<"u","t","m","_","s","o","u","r","c","e">>,
      <<"u","t","m","_","m","e","d","i","u","m">>,
      <<"u","t","m","_","c","a","m","p","a","i","g","n">>,
      <<"u","t","m","_","c","o","n","t","e","n","t">>,
      <<"r","e","f">>,
      <<"f","b","c","l","i","d">>,
      <<"g","c","l","i","d">> }

\* the dict comprehension of _normalize_url: the items whose lowercased name is
\* not a tracking key, in order
RECURSIVE CleanParams(_)
CleanParams(items) ==
    IF items = <<>> THEN <<>>
    ELSE (IF Lower(Head(items)[1]) \notin tracking_keys THEN <<Head(items)>> ELSE <<>>)
         \o CleanParams(Tail(items))

_normalize_url(url) ==
    Bind(urlparse(url), LAMBDA parsed :
    Bind(CleanParams(parse_qs(parsed.query)), LAMBDA clean_params :
    Bind(IF clean_params # <<>> THEN urlencode(clean_params) ELSE <<>>, LAMBDA clean_query :
    Bind(parsed.scheme \o <<":", "/", "/">> \o parsed.netloc \o parsed.path, LAMBDA base :
    Bind(IF clean_query # <<>> THEN base \o <<"?">> \o clean_query ELSE base, LAMBDA normalized :
        RStrip(normalized, "/"))))))

(***************************************************************************)
(* Title similarity and source rank.                                       *)
(***************************************************************************)
TokenChars == Range(LowerChars) \cup Digits

\* re.findall(r"[a-z0-9]+", s): the maximal runs of token characters of s, in
\* order; run is the run being scanned
RECURSIVE FindRuns(_, _)
FindRuns(s, run) ==
    IF s = <<>> THEN (IF run = <<>> THEN <<>> ELSE <<run>>)
    ELSE IF Head(s) \in TokenChars THEN FindRuns(Tail(s), Append(run, Head(s)))
    ELSE (IF run = <<>> THEN <<>> ELSE <<run>>) \o FindRuns(Tail(s), <<>>)

_tokenize(text) == Range(FindRuns(Lower(text), <<>>))

\* the float 0.0 and the float n/d
Ratio(n, d) == <<n, d>>

\* a >= b for two floats given as ratios
RatioGeq(a, b) == a[1] * b[2] >= b[1] * a[2]

\* _title_similarity with the smaller token set as the denominator
_title_similarity_Overlap(title_a, title_b) ==
    LET tokens_a == _tokenize(title_a)
        tokens_b == _tokenize(title_b)
        intersection == tokens_a \cap tokens_b
        smaller == IF Cardinality(tokens_a) <= Cardinality(tokens_b) THEN tokens_a ELSE tokens_b
    IN  IF tokens_a = {} \/ tokens_b = {} THEN Ratio(0, 1)
        ELSE Ratio(Cardinality(intersection), Cardinality(smaller))

_title_similarity(title_a, title_b) ==
    LET tokens_a == _tokenize(title_a)
        tokens_b == _tokenize(title_b)
        intersection == tokens_a \cap tokens_b
        union == tokens_a \cup tokens_b
    IN  IF tokens_a = {} \/ tokens_b = {} THEN Ratio(0, 1)
        ELSE IF union # {} THEN Ratio(Cardinality(intersection), Cardinality(union))
        ELSE Ratio(0, 1)

SOURCE_PRIORITY ==
    << <<"I","D","F"," ","S","p","o","k","e","s","p","e","r","s","o","n">>,
       <<"T","i","m","e","s"," ","o","f"," ","I","s","r","a","e","l">>,
       <<"J","e","r","u","s","a","l","e","m"," ","P","o","s","t">>,
       <<"Y","n","e","t","n","e","w","s">>,
       <<"R","e","u","t","e","r","s">>,
       <<"B","B","C">>,
       <<"A","l"," ","J","a","z","e","e","r","a">>,
       <<"i","2","4"," ","N","e","w","s">> >>

\* RankFrom returning the last match of the list instead of the first
RankFrom_LastMatch(source_lower, i) ==
    LET hits == {j \in i..Len(SOURCE_PRIORITY) :
                    IsSubstring(Lower(SOURCE_PRIORITY[j]), source_lower)}
    IN  IF hits = {} THEN Len(SOURCE_PRIORITY)
        ELSE (CHOOSE j \in hits : \A h \in hits : h <= j) - 1

\* the for loop of _source_rank from list position i on; enumerate() counts
\* from 0, so the rank of SOURCE_PRIORITY[i] is i - 1
RECURSIVE RankFrom(_, _)
RankFrom(source_lower, i) ==
    IF i > Len(SOURCE_PRIORITY) THEN Len(SOURCE_PRIORITY)
    ELSE IF IsSubstring(Lower(SOURCE_PRIORITY[i]), source_lower) THEN i - 1
    ELSE RankFrom(source_lower, i + 1)

_source_rank(source) == RankFrom(Lower(source), 1)

(***************************************************************************)
(* Inputs.                                                                 *)
(***************************************************************************)
MaxArticles == 3

Links ==
    { <<"h","t","t","p","s",":","/","/","a",".","c","o","m","/","x">>,
      <<"h","t","t","p","s",":","/","/","a",".","c","o","m","/","x","/","?","u","t","m","_","s","o","u","r","c","e","=","t">>,
      <<"h","t","t","p","s",":","/","/","b",".","c","o","m","/","y">>,
      <<"h","t","t","p","s",":","/","/","c",".","c","o","m","/","z">> }

Reuters == <<"R","e","u","t","e","r","s">>

BBCNews == <<"B","B","C"," ","N","e","w","s">>

Blog == <<"B","l","o","g">>

\* token sets {a,b,c,d}, {a,b,c,e}, {a,b,e,f}: the first two and the last two
\* share 3 of 5 tokens, the first and the last 2 of 6
TitleABCD == <<"a"," ","b"," ","c"," ","d">>

TitleABCE == <<"A"," ","b",":"," ","c"," ","e">>

TitleABEF == <<"a"," ","b"," ","e"," ","f">>

Stories ==
    { [title |-> TitleABCD, source |-> Blog],
      [title |-> TitleABCD, source |-> Reuters],
      [title |-> TitleABCE, source |-> BBCNews],
      [title |-> TitleABEF, source |-> Reuters] }

\* an entry of a feed that gives neither a title nor a link: the fetchers fill
\* in the empty string
Untitled == [title |-> <<>>, source |-> Blog, link |-> <<>>]

\* the Article records the fetchers build: title, link and source always present
Pool ==
    {[title |-> s.title, source |-> s.source, link |-> l] : s \in Stories, l \in Links}
    \cup {Untitled}

\* similarity_threshold: 0.0, the default 0.6 and 1.0
Thresholds == {Ratio(0, 1), Ratio(3, 5), Ratio(1, 1)}

\* key in dict
Has(d, key) == key \in DOMAIN d

\* dict.get(key, default)
Get(d, key, default) == IF key \in DOMAIN d THEN d[key] ELSE default

\* the dict d without the key
Without(d, key) == [f \in (DOMAIN d) \ {key} |-> d[f]]

\* a link whose host opens a bracket that it never closes
BracketLink == <<"h","t","t","p","s",":","/","/","[","a",".","c","o","m","/","x">>

\* dicts that are not what the fetchers build: three articles (the first two
\* of one normalized URL, the first and the last of one title), each also
\* without its link, without its title and without its source, and one
\* article whose link cannot be parsed
MalformedPool ==
    LET x == <<"h","t","t","p","s",":","/","/","a",".","c","o","m","/","x">>
        xt == <<"h","t","t","p","s",":","/","/","a",".","c","o","m","/","x","/","?","u","t","m","_","s","o","u","r","c","e","=","t">>
        y == <<"h","t","t","p","s",":","/","/","b",".","c","o","m","/","y">>
        whole == { [title |-> TitleABCD, source |-> Blog, link |-> x],
                   [title |-> TitleABCE, source |-> BBCNews, link |-> xt],
                   [title |-> TitleABCD, source |-> Reuters, link |-> y] }
    IN  whole
        \cup {Without(a, key) : a \in whole, key \in {"link", "title", "source"}}
        \cup {[title |-> TitleABEF, source |-> Reuters, link |-> BracketLink]}

\* articles without a link, as a feed entry with no link gives them (link "")
\* or as a dict built elsewhere may (no link key): the titles and sources of
\* Stories and of Untitled
LinklessPool ==
    LET empty == {[title |-> s.title, source |-> s.source, link |-> <<>>] : s \in Stories}
                 \cup {Untitled}
    IN  empty \cup {Without(a, "link") : a \in empty}

\* URLs of one resource written in several forms: a base (scheme, host and
\* path), a '/' after the path or none, and query parameters as (name, value)
\* pairs, some of them tracking parameters, one with a blank value
UrlForms ==
    LET a == <<"h","t","t","p","s",":","/","/","a",".","c","o","m","/","x">>
        b == <<"h","t","t","p","s",":","/","/","b",".","c","o","m","/","y">>
        id == <<"i","d">>
        one == <<"1">>
        two == <<"2">>
        t == <<"t">>
    IN  {[base |-> a, slash |-> s, params |-> p] :
             s \in BOOLEAN,
             p \in { <<>>,
                     << <<<<"u","t","m","_","s","o","u","r","c","e">>, t>> >>,
                     << <<id, one>> >>,
                     << <<id, one>>, <<<<"r","e","f">>, two>> >>,
                     << <<id, <<>>>> >> }}
        \cup {[base |-> b, slash |-> FALSE, params |-> <<>>]}

\* the text of a URL form: base, '/' if any, and '?name=value&...' if any
UrlText(form) ==
    form.base
    \o (IF form.slash THEN <<"/">> ELSE <<>>)
    \o (IF form.params = <<>> THEN <<>>
        ELSE <<"?">> \o Join([k \in DOMAIN form.params |->
                                 form.params[k][1] \o <<"=">> \o form.params[k][2]], "&"))

UrlLinks == {UrlText(form) : form \in UrlForms}

\* one article per URL form
UrlPool == {[title |-> TitleABCD, source |-> Blog, link |-> l] : l \in UrlLinks}

\* titles for the similarity score: the empty title, a title without ASCII
\* letters or digits, two texts with the token set {a, b}, a superset and a
\* subset of it
Titles ==
    { <<>>,
      <<"ש","ל","ו","ם">>,
      <<"b"," ","a">>,
      <<"A",","," ","b">>,
      TitleABCD,
      <<"a">> }

\* every title under two links that do not normalize alike
TitlePool ==
    {[title |-> t, source |-> Blog, link |-> l] :
        t \in Titles,
        l \in { <<"h","t","t","p","s",":","/","/","a",".","c","o","m","/","x">>,
                <<"h","t","t","p","s",":","/","/","b",".","c","o","m","/","y">> }}

\* source names for the rank: one holding two canonical names, the later of
\* the list first, one in lower case, one that is a part of a canonical name
\* only, the empty name, an unknown name and a canonical name
Sources ==
    { <<"B","B","C"," ","R","e","u","t","e","r","s">>,
      <<"t","i","m","e","s"," ","o","f"," ","i","s","r","a","e","l">>,
      <<"I","D","F">>,
      <<>>,
      Blog,
      Reuters }

\* every source under two links that do not normalize alike
SourcePool ==
    {[title |-> TitleABCD, source |-> s, link |-> l] :
        s \in Sources,
        l \in { <<"h","t","t","p","s",":","/","/","a",".","c","o","m","/","x">>,
                <<"h","t","t","p","s",":","/","/","b",".","c","o","m","/","y">> }}

\* the articles of a run: fetch_google_news and fetch_direct_feeds give every
\* article a title, a link, a summary and a source, and the links parse.  Two
\* reports of one story under different links, a third under the first link
\* with a tracking parameter, an article whose keywords stand in its summary
\* between tags, one whose keywords stand inside a tag only, and one that names
\* an actor and no event
RunPool ==
    { [title |-> <<"I","r","a","n"," ","w","a","r"," ","l","o","o","m","s">>,
       link |-> <<"h","t","t","p","s",":","/","/","a",".","c","o","m","/","x">>,
       source |-> Reuters,
       summary |-> <<>>],
      [title |-> <<"I","R","A","N"," ","W","A","R"," ","L","O","O","M","S">>,
       link |-> <<"h","t","t","p","s",":","/","/","b",".","c","o","m","/","y">>,
       source |-> Blog,
       summary |-> <<>>],
      [title |-> <<"I","s","r","a","e","l"," ","s","t","r","i","k","e"," ","o","n"," ","I","r","a","n">>,
       link |-> <<"h","t","t","p","s",":","/","/","a",".","c","o","m","/","x","/","?","u","t","m","_","s","o","u","r","c","e","=","t">>,
       source |-> BBCNews,
       summary |-> <<>>],
      [title |-> <<"T","w","o"," ","k","i","l","l","e","d">>,
       link |-> <<"h","t","t","p","s",":","/","/","c",".","c","o","m","/","z">>,
       source |-> Blog,
       summary |-> <<"<","b",">","I","D","F","<","/","b",">"," ","a","i","r","s","t","r","i","k","e">>],
      [title |-> <<"M","a","r","k","e","t","s">>,
       link |-> <<"h","t","t","p","s",":","/","/","c",".","c","o","m","/","z">>,
       source |-> Reuters,
       summary |-> <<"<","a"," ","h","r","e","f","=","i","r","a","n","-","a","t","t","a","c","k",">","s","t","o","r","y","<","/","a",">">>],
      [title |-> <<"I","r","a","n"," ","e","c","o","n","o","m","y"," ","g","r","o","w","s">>,
       link |-> <<"h","t","t","p","s",":","/","/","b",".","c","o","m","/","y">>,
       source |-> BBCNews,
       summary |-> <<>>] }

\* every modelled article, and the links, sources and titles that occur in them
Modelled ==
    Pool \cup MalformedPool \cup LinklessPool \cup UrlPool \cup TitlePool \cup SourcePool
    \cup RunPool

ModelledLinks == {Get(a, "link", <<>>) : a \in Modelled}

ModelledSources == {a.source : a \in {b \in Modelled : Has(b, "source")}}

ModelledTitles == {a.title : a \in {b \in Modelled : Has(b, "title")}}

(***************************************************************************)
(* The relevance filter (src/processing/relevance_filter.py) with the      *)
(* keyword lists of src/config.py.                                         *)
(***************************************************************************)
ACTORS ==
    { <<"i","r","a","n">>,
      <<"i","r","a","n","i","a","n">>,
      <<"i","r","g","c">>,
      <<"i","s","l","a","m","i","c"," ","r","e","p","u","b","l","i","c">>,
      <<"i","s","r","a","e","l">>,
      <<"i","s","r","a","e","l","i">>,
      <<"i","d","f">>,
      <<"i","a","f">>,
      <<"h","e","z","b","o","l","l","a","h">>,
      <<"h","o","u","t","h","i">>,
      <<"h","o","u","t","h","i","s">>,
      <<"h","a","m","a","s">>,
      <<"i","s","l","a","m","i","c"," ","j","i","h","a","d">>,
      <<"t","e","h","r","a","n">>,
      <<"k","h","a","m","e","n","e","i">> }

EVENTS ==
    { <<"s","t","r","i","k","e">>,
      <<"s","t","r","i","k","e","s">>,
      <<"s","t","r","u","c","k">>,
      <<"a","t","t","a","c","k">>,
      <<"a","t","t","a","c","k","e","d">>,
      <<"m","i","s","s","i","l","e">>,
      <<"m","i","s","s","i","l","e","s">>,
      <<"b","a","l","l","i","s","t","i","c">>,
      <<"r","o","c","k","e","t">>,
      <<"r","o","c","k","e","t","s">>,
      <<"d","r","o","n","e">>,
      <<"d","r","o","n","e","s">>,
      <<"u","a","v">>,
      <<"s","h","a","h","e","d">>,
      <<"i","n","t","e","r","c","e","p","t">>,
      <<"i","n","t","e","r","c","e","p","t","e","d">>,
      <<"i","n","t","e","r","c","e","p","t","i","o","n">>,
      <<"i","r","o","n"," ","d","o","m","e">>,
      <<"a","r","r","o","w">>,
      <<"d","a","v","i","d","'","s"," ","s","l","i","n","g">>,
      <<"a","i","r"," ","d","e","f","e","n","s","e">>,
      <<"a","i","r"," ","d","e","f","e","n","c","e">>,
      <<"c","a","s","u","a","l","t","i","e","s">>,
      <<"k","i","l","l","e","d">>,
      <<"i","n","j","u","r","e","d">>,
      <<"w","o","u","n","d","e","d">>,
      <<"d","e","a","d">>,
      <<"p","i","l","o","t">>,
      <<"p","i","l","o","t","s">>,
      <<"a","i","r","c","r","e","w">>,
      <<"a","l","e","r","t">>,
      <<"s","i","r","e","n">>,
      <<"s","i","r","e","n","s">>,
      <<"h","o","m","e"," ","f","r","o","n","t"," ","c","o","m","m","a","n","d">>,
      <<"r","e","t","a","l","i","a","t","i","o","n">>,
      <<"r","e","t","a","l","i","a","t","o","r","y">>,
      <<"e","s","c","a","l","a","t","i","o","n">>,
      <<"c","e","a","s","e","f","i","r","e">>,
      <<"t","r","u","c","e">>,
      <<"d","e","-","e","s","c","a","l","a","t","i","o","n">>,
      <<"n","u","c","l","e","a","r">>,
      <<"e","n","r","i","c","h","m","e","n","t">>,
      <<"n","a","t","a","n","z">>,
      <<"f","o","r","d","o","w">> }

HIGH_PRIORITY ==
    { <<"i","a","f"," ","p","i","l","o","t">>,
      <<"i","s","r","a","e","l","i"," ","a","i","r"," ","f","o","r","c","e"," ","p","i","l","o","t">>,
      <<"i","r","a","n"," ","a","t","t","a","c","k","s"," ","i","s","r","a","e","l">>,
      <<"i","r","a","n"," ","a","t","t","a","c","k"," ","i","s","r","a","e","l">>,
      <<"i","r","a","n"," ","s","t","r","i","k","e","s"," ","i","s","r","a","e","l">>,
      <<"i","s","r","a","e","l"," ","s","t","r","i","k","e","s"," ","i","r","a","n">>,
      <<"i","s","r","a","e","l"," ","a","t","t","a","c","k"," ","i","r","a","n">>,
      <<"b","a","l","l","i","s","t","i","c"," ","m","i","s","s","i","l","e"," ","i","s","r","a","e","l">>,
      <<"i","r","o","n"," ","d","o","m","e"," ","a","c","t","i","v","a","t","i","o","n">>,
      <<"i","r","o","n"," ","d","o","m","e"," ","i","n","t","e","r","c","e","p","t">>,
      <<"i","s","r","a","e","l","i"," ","p","i","l","o","t">>,
      <<"n","e","v","a","t","i","m">>,
      <<"r","a","m","o","n"," ","a","i","r"," ","b","a","s","e">>,
      <<"r","a","m","a","t"," ","d","a","v","i","d">>,
      <<"h","a","t","z","e","r","i","m">>,
      <<"p","a","l","m","a","c","h","i","m">>,
      <<"t","e","l"," ","n","o","f">>,
      <<"o","v","d","a">>,
      <<"i","r","a","n"," ","w","a","r">>,
      <<"i","r","a","n"," ","r","e","t","a","l","i","a","t">>,
      <<"m","i","s","s","i","l","e"," ","t","e","l"," ","a","v","i","v">>,
      <<"m","i","s","s","i","l","e"," ","h","a","i","f","a">>,
      <<"m","i","s","s","i","l","e"," ","j","e","r","u","s","a","l","e","m">>,
      <<"s","i","r","e","n"," ","t","e","l"," ","a","v","i","v">>,
      <<"s","i","r","e","n"," ","h","a","i","f","a">>,
      <<"h","o","u","t","h","i"," ","i","s","r","a","e","l">>,
      <<"s","t","r","a","i","t"," ","o","f"," ","h","o","r","m","u","z">> }

\* re.sub(r"<[^>]+>", " ", text): every '<' followed by at least one character
\* other than '>' and then a '>' becomes one space, scanning from the left
RECURSIVE _strip_html(_)
_strip_html(text) ==
    IF text = <<>> THEN <<>>
    ELSE LET close == FindAny(Tail(text), {">"})
         IN  IF text[1] = "<" /\ close > 1
             THEN <<" ">> \o _strip_html(From(text, close + 2))
             ELSE <<text[1]>> \o _strip_html(Tail(text))

\* is_relevant(article)
is_relevant(article) ==
    LET raw == Get(article, "title", <<>>) \o <<" ">> \o Get(article, "summary", <<>>)
        text == Lower(_strip_html(raw))
        has_actor == \E actor \in ACTORS : IsSubstring(actor, text)
        has_event == \E event \in EVENTS : IsSubstring(event, text)
    IN  \/ \E phrase \in HIGH_PRIORITY : IsSubstring(phrase, text)
        \/ has_actor /\ has_event

\* is_relevant tabulated over the articles of a run
Relevant == [a \in RunPool |-> is_relevant(a)]

\* filter_relevant(X): [a for a in articles if is_relevant(a)]
filter_relevant(X) == SelectSeq(X, LAMBDA a : Relevant[a])

(***************************************************************************)
(* The helper calls of deduplicate, tabulated once over the modelled       *)
(* articles: NormUrl[l] is _normalize_url(l) for the links l that parse    *)
(* (ParseFails[l] tells whether urlparse raises), Rank[s] is               *)
(* _source_rank(s) and Similarity[a][b] is _title_similarity(a, b).        *)
(***************************************************************************)
ParseFails == [l \in ModelledLinks |-> urlparse_raises(l)]

NormUrl == [l \in {m \in ModelledLinks : ~ParseFails[m]} |-> _normalize_url(l)]

Rank == [s \in ModelledSources |-> _source_rank(s)]

Similarity ==
    [a \in ModelledTitles |-> [b \in ModelledTitles |-> _title_similarity(a, b)]]

(***************************************************************************)
(* deduplicate: the two loops, one iteration at a time.                    *)
(***************************************************************************)
\* Phase1Body keyed by the raw link instead of the normalized URL
Phase1Body_RawLink(X, seen, deduped, k) ==
    LET article == X[k]
        norm_url == Get(article, "link", <<>>)
    IN  IF norm_url \in DOMAIN seen
        THEN LET existing_idx == seen[norm_url] IN
             IF Rank[article.source] < Rank[X[deduped[existing_idx]].source]
             THEN [seen_urls |-> seen, url_deduped |-> [deduped EXCEPT ![existing_idx] = k]]
             ELSE [seen_urls |-> seen, url_deduped |-> deduped]
        ELSE [seen_urls |-> (norm_url :> (Len(deduped) + 1)) @@ seen,
              url_deduped |-> Append(deduped, k)]

\* Phase1Body replacing on <= instead of <
Phase1Body_ReplaceOnTie(X, seen, deduped, k) ==
    LET article == X[k]
        norm_url == NormUrl[Get(article, "link", <<>>)]
    IN  IF norm_url \in DOMAIN seen
        THEN LET existing_idx == seen[norm_url] IN
             IF Rank[article.source] <= Rank[X[deduped[existing_idx]].source]
             THEN [seen_urls |-> seen, url_deduped |-> [deduped EXCEPT ![existing_idx] = k]]
             ELSE [seen_urls |-> seen, url_deduped |-> deduped]
        ELSE [seen_urls |-> (norm_url :> (Len(deduped) + 1)) @@ seen,
              url_deduped |-> Append(deduped, k)]

\* Phase1Body that never replaces the kept article
Phase1Body_KeepFirst(X, seen, deduped, k) ==
    LET article == X[k]
        norm_url == NormUrl[Get(article, "link", <<>>)]
    IN  IF norm_url \in DOMAIN seen
        THEN [seen_urls |-> seen, url_deduped |-> deduped]
        ELSE [seen_urls |-> (norm_url :> (Len(deduped) + 1)) @@ seen,
              url_deduped |-> Append(deduped, k)]

\* Phase1Body with empty normalized URLs exempt from the URL phase: an article
\* whose link normalizes to nothing of a URL is appended without a lookup
Phase1Body_SkipEmptyUrl(X, seen, deduped, k) ==
    LET article == X[k]
        norm_url == NormUrl[Get(article, "link", <<>>)]
    IN  IF norm_url \in DOMAIN seen /\ norm_url \notin {<<>>, <<":">>}
        THEN LET existing_idx == seen[norm_url] IN
             IF Rank[article.source] < Rank[X[deduped[existing_idx]].source]
             THEN [seen_urls |-> seen, url_deduped |-> [deduped EXCEPT ![existing_idx] = k]]
             ELSE [seen_urls |-> seen, url_deduped |-> deduped]
        ELSE [seen_urls |-> (norm_url :> (Len(deduped) + 1)) @@ seen,
              url_deduped |-> Append(deduped, k)]

\* Phase1Body writing a more trusted duplicate over the last slot instead of
\* the slot of its URL
Phase1Body_ReplaceLast(X, seen, deduped, k) ==
    LET article == X[k]
        norm_url == NormUrl[Get(article, "link", <<>>)]
    IN  IF norm_url \in DOMAIN seen
        THEN LET existing_idx == seen[norm_url] IN
             IF Rank[article.source] < Rank[X[deduped[existing_idx]].source]
             THEN [seen_urls |-> seen, url_deduped |-> [deduped EXCEPT ![Len(deduped)] = k]]
             ELSE [seen_urls |-> seen, url_deduped |-> deduped]
        ELSE [seen_urls |-> (norm_url :> (Len(deduped) + 1)) @@ seen,
              url_deduped |-> Append(deduped, k)]

\* Phase1Body letting the last article of a URL win whatever its rank
Phase1Body_KeepLast(X, seen, deduped, k) ==
    LET article == X[k]
        norm_url == NormUrl[Get(article, "link", <<>>)]
    IN  IF norm_url \in DOMAIN seen
        THEN [seen_urls |-> seen, url_deduped |-> [deduped EXCEPT ![seen[norm_url]] = k]]
        ELSE [seen_urls |-> (norm_url :> (Len(deduped) + 1)) @@ seen,
              url_deduped |-> Append(deduped, k)]

\* the body of the phase-1 loop for the article at input position k: the new
\* seen_urls (normalized URL -> index in url_deduped) and url_deduped
Phase1Body(X, seen, deduped, k) ==
    LET article == X[k]
        norm_url == NormUrl[Get(article, "link", <<>>)]
    IN  IF norm_url \in DOMAIN seen
        THEN LET existing_idx == seen[norm_url] IN
             IF Rank[article.source] < Rank[X[deduped[existing_idx]].source]
             THEN [seen_urls |-> seen, url_deduped |-> [deduped EXCEPT ![existing_idx] = k]]
             ELSE [seen_urls |-> seen, url_deduped |-> deduped]
        ELSE [seen_urls |-> (norm_url :> (Len(deduped) + 1)) @@ seen,
              url_deduped |-> Append(deduped, k)]

\* FirstSimilar that matches on any shared token, whatever the threshold
FirstSimilar_AnyOverlap(X, threshold, res, k) ==
    LET similar(i) == Similarity[X[k].title][X[res[i]].title][1] > 0
    IN  IF \E i \in DOMAIN res : similar(i)
        THEN CHOOSE i \in DOMAIN res : similar(i) /\ \A m \in 1..(i - 1) : ~similar(m)
        ELSE 0

\* FirstSimilar with the strict test > in place of >=
FirstSimilar_Strict(X, threshold, res, k) ==
    LET similar(i) == ~RatioGeq(threshold, Similarity[X[k].title][X[res[i]].title])
    IN  IF \E i \in DOMAIN res : similar(i)
        THEN CHOOSE i \in DOMAIN res : similar(i) /\ \A m \in 1..(i - 1) : ~similar(m)
        ELSE 0

\* FirstSimilar giving the last similar entry of res instead of the first
FirstSimilar_Last(X, threshold, res, k) ==
    LET similar(i) == RatioGeq(Similarity[X[k].title][X[res[i]].title], threshold)
    IN  IF \E i \in DOMAIN res : similar(i)
        THEN CHOOSE i \in DOMAIN res : similar(i) /\ \A m \in (i + 1)..Len(res) : ~similar(m)
        ELSE 0

\* FirstSimilar with the inner loop starting at the second entry of res
FirstSimilar_SkipFirst(X, threshold, res, k) ==
    LET similar(i) == i > 1 /\ RatioGeq(Similarity[X[k].title][X[res[i]].title], threshold)
    IN  IF \E i \in DOMAIN res : similar(i)
        THEN CHOOSE i \in DOMAIN res : similar(i) /\ \A m \in 1..(i - 1) : ~similar(m)
        ELSE 0

\* the inner loop of phase 2: the index of the first entry of res whose title
\* similarity with the article at input position k reaches the threshold, 0 if none
FirstSimilar(X, threshold, res, k) ==
    LET similar(i) == RatioGeq(Similarity[X[k].title][X[res[i]].title], threshold)
    IN  IF \E i \in DOMAIN res : similar(i)
        THEN CHOOSE i \in DOMAIN res : similar(i) /\ \A m \in 1..(i - 1) : ~similar(m)
        ELSE 0

\* Phase2Body with the rank comparison reversed
Phase2Body_KeepWorse(X, threshold, res, k) ==
    LET i == FirstSimilar(X, threshold, res, k) IN
    IF i # 0
    THEN IF Rank[X[k].source] > Rank[X[res[i]].source]
         THEN [res EXCEPT ![i] = k]
         ELSE res
    ELSE Append(res, k)

\* Phase2Body with `if not is_dup: result.append(article)` indented into the
\* inner loop: nothing is appended while result is empty
Phase2Body_AppendInsideLoop(X, threshold, res, k) ==
    LET i == FirstSimilar(X, threshold, res, k) IN
    IF i # 0
    THEN IF Rank[X[k].source] < Rank[X[res[i]].source]
         THEN [res EXCEPT ![i] = k]
         ELSE res
    ELSE IF res = <<>> THEN res ELSE Append(res, k)

\* Phase2Body appending the article after it has replaced the matched entry
Phase2Body_AppendAfterReplace(X, threshold, res, k) ==
    LET i == FirstSimilar(X, threshold, res, k) IN
    IF i # 0
    THEN IF Rank[X[k].source] < Rank[X[res[i]].source]
         THEN Append([res EXCEPT ![i] = k], k)
         ELSE res
    ELSE Append(res, k)

\* the body of the phase-2 loop for the article at input position k: the new result
Phase2Body(X, threshold, res, k) ==
    LET i == FirstSimilar(X, threshold, res, k) IN
    IF i # 0
    THEN IF Rank[X[k].source] < Rank[X[res[i]].source]
         THEN [res EXCEPT ![i] = k]
         ELSE res
    ELSE Append(res, k)

\* the exception the phase-1 loop body raises for the article at input
\* position k, "none" if it raises none: ValueError from urlparse (line 73),
\* KeyError from article["source"] or the kept article's ["source"] (line 77)
Phase1Raises(X, seen, deduped, k) ==
    LET article == X[k]
        link == Get(article, "link", <<>>)
    IN  IF ParseFails[link] THEN "ValueError"
        ELSE IF NormUrl[link] \notin DOMAIN seen THEN "none"
        ELSE IF Has(article, "source") /\ Has(X[deduped[seen[NormUrl[link]]]], "source")
             THEN "none"
             ELSE "KeyError"

\* the exception the inner loop of phase 2 raises from index i of res on for
\* the article at input position k, "none" if it raises none: KeyError from
\* ["title"] of either article (line 88) and, on a match, from ["source"] of
\* either (line 90)
RECURSIVE Phase2Raises(_, _, _, _, _)
Phase2Raises(X, threshold, res, k, i) ==
    IF i > Len(res) THEN "none"
    ELSE IF ~Has(X[k], "title") \/ ~Has(X[res[i]], "title") THEN "KeyError"
    ELSE IF RatioGeq(Similarity[X[k].title][X[res[i]].title], threshold)
         THEN IF Has(X[k], "source") /\ Has(X[res[i]], "source") THEN "none" ELSE "KeyError"
    ELSE Phase2Raises(X, threshold, res, k, i + 1)

\* phase 1 run from input position k to the end
RECURSIVE Phase1From(_, _, _, _)
Phase1From(X, seen, deduped, k) ==
    IF k > Len(X) THEN deduped
    ELSE LET s == Phase1Body(X, seen, deduped, k)
         IN  Phase1From(X, s.seen_urls, s.url_deduped, k + 1)

\* phase 2 run from position j of url_deduped to the end
RECURSIVE Phase2From(_, _, _, _, _)
Phase2From(X, threshold, deduped, res, j) ==
    IF j > Len(deduped) THEN res
    ELSE Phase2From(X, threshold, deduped, Phase2Body(X, threshold, res, deduped[j]), j + 1)

\* deduplicate(X, threshold) as a function: the input positions of the returned articles
deduplicate(X, threshold) ==
    Phase2From(X, threshold, Phase1From(X, <<>>, <<>>, 1), <<>>, 1)

\* the list of the articles at the positions ps of X
Select(X, ps) == [k \in DOMAIN ps |-> X[ps[k]]]

RECURSIVE ListsUpTo(_, _)
ListsUpTo(S, n) ==
    IF n = 0 THEN {<<>>}
    ELSE LET shorter == ListsUpTo(S, n - 1)
         IN  shorter \cup {Append(x, a) : x \in shorter, a \in S}

(***************************************************************************)
(* The state machine: one call of deduplicate.                             *)
(***************************************************************************)
Init ==
    /\ articles \in ListsUpTo(Pool, MaxArticles)
    /\ similarity_threshold \in Thresholds
    /\ pc = "phase1"
    /\ pos = 1
    /\ seen_urls = <<>>
    /\ url_deduped = <<>>
    /\ result = <<>>
    /\ Idle

\* one iteration of `for article in articles`
Phase1Iter ==
    /\ pc = "phase1"
    /\ pos <= Len(articles)
    /\ Phase1Raises(articles, seen_urls, url_deduped, pos) = "none"
    /\ LET s == Phase1Body(articles, seen_urls, url_deduped, pos)
       IN  /\ seen_urls' = s.seen_urls
           /\ url_deduped' = s.url_deduped
    /\ pos' = pos + 1
    /\ UNCHANGED <<articles, similarity_threshold, pc, result>>
    /\ UNCHANGED others

\* the first loop is exhausted: result = []
Phase1End ==
    /\ pc = "phase1"
    /\ pos > Len(articles)
    /\ pc' = "phase2"
    /\ pos' = 1
    /\ result' = <<>>
    /\ UNCHANGED <<articles, similarity_threshold, seen_urls, url_deduped>>
    /\ UNCHANGED others

\* one iteration of `for article in url_deduped`
Phase2Iter ==
    /\ pc = "phase2"
    /\ pos <= Len(url_deduped)
    /\ Phase2Raises(articles, similarity_threshold, result, url_deduped[pos], 1) = "none"
    /\ result' = Phase2Body(articles, similarity_threshold, result, url_deduped[pos])
    /\ pos' = pos + 1
    /\ UNCHANGED <<articles, similarity_threshold, pc, seen_urls, url_deduped>>
    /\ UNCHANGED others

\* the second loop is exhausted: log and return result
Return ==
    /\ pc = "phase2"
    /\ pos > Len(url_deduped)
    /\ pc' = "done"
    /\ UNCHANGED <<articles, similarity_threshold, pos, seen_urls, url_deduped, result>>
    /\ UNCHANGED others

Next == Phase1Iter \/ Phase1End \/ Phase2Iter \/ Return

Spec == Init /\ [][Next]_vars

(***************************************************************************)
(* deduplicate called with dicts that lack a key or hold a link that does  *)
(* not parse: an exception leaves the call, pc names it.                   *)
(***************************************************************************)
InitMalformed ==
    /\ articles \in ListsUpTo(MalformedPool, MaxArticles)
    /\ similarity_threshold \in Thresholds
    /\ pc = "phase1"
    /\ pos = 1
    /\ seen_urls = <<>>
    /\ url_deduped = <<>>
    /\ result = <<>>
    /\ Idle

\* an iteration of the first loop raises
Phase1Raise ==
    /\ pc = "phase1"
    /\ pos <= Len(articles)
    /\ Phase1Raises(articles, seen_urls, url_deduped, pos) # "none"
    /\ pc' = Phase1Raises(articles, seen_urls, url_deduped, pos)
    /\ UNCHANGED <<articles, similarity_threshold, pos, seen_urls, url_deduped, result>>
    /\ UNCHANGED others

\* an iteration of the second loop raises
Phase2Raise ==
    /\ pc = "phase2"
    /\ pos <= Len(url_deduped)
    /\ Phase2Raises(articles, similarity_threshold, result, url_deduped[pos], 1) # "none"
    /\ pc' = Phase2Raises(articles, similarity_threshold, result, url_deduped[pos], 1)
    /\ UNCHANGED <<articles, similarity_threshold, pos, seen_urls, url_deduped, result>>
    /\ UNCHANGED others

NextMalformed ==
    Phase1Iter \/ Phase1Raise \/ Phase1End \/ Phase2Iter \/ Phase2Raise \/ Return

SpecMalformed == InitMalformed /\ [][NextMalformed]_vars

(***************************************************************************)
(* deduplicate called with articles none of which has a link.              *)
(***************************************************************************)
InitLinkless ==
    /\ articles \in ListsUpTo(LinklessPool, MaxArticles)
    /\ similarity_threshold \in Thresholds
    /\ pc = "phase1"
    /\ pos = 1
    /\ seen_urls = <<>>
    /\ url_deduped = <<>>
    /\ result = <<>>
    /\ Idle

SpecLinkless == InitLinkless /\ [][Next]_vars

(***************************************************************************)
(* deduplicate called with articles whose links are forms of the same      *)
(* URLs.                                                                   *)
(***************************************************************************)
InitUrls ==
    /\ articles \in ListsUpTo(UrlPool, MaxArticles)
    /\ similarity_threshold \in Thresholds
    /\ pc = "phase1"
    /\ pos = 1
    /\ seen_urls = <<>>
    /\ url_deduped = <<>>
    /\ result = <<>>
    /\ Idle

SpecUrls == InitUrls /\ [][Next]_vars

(***************************************************************************)
(* deduplicate called with articles that differ in their titles.           *)
(***************************************************************************)
InitTitles ==
    /\ articles \in ListsUpTo(TitlePool, MaxArticles)
    /\ similarity_threshold \in Thresholds
    /\ pc = "phase1"
    /\ pos = 1
    /\ seen_urls = <<>>
    /\ url_deduped = <<>>
    /\ result = <<>>
    /\ Idle

SpecTitles == InitTitles /\ [][Next]_vars

(***************************************************************************)
(* deduplicate called with articles that differ in their sources.          *)
(***************************************************************************)
InitSources ==
    /\ articles \in ListsUpTo(SourcePool, MaxArticles)
    /\ similarity_threshold \in Thresholds
    /\ pc = "phase1"
    /\ pos = 1
    /\ seen_urls = <<>>
    /\ url_deduped = <<>>
    /\ result = <<>>
    /\ Idle

SpecSources == InitSources /\ [][Next]_vars

(***************************************************************************)
(* Two calls of deduplicate on independent lists, their steps interleaved. *)
(* The first call is the one of Spec; the second is the record peer, with  *)
(* its own parameters and locals.  Both take fetched articles, on which no *)
(* step raises.                                                            *)
(***************************************************************************)
MaxPeerArticles == 2

\* three fetched articles: the first two under one normalized URL, the last
\* two with titles of similarity 0.6
ConcurrentPool ==
    { [title |-> TitleABCD, source |-> Blog, link |-> <<"h","t","t","p","s",":","/","/","a",".","c","o","m","/","x">>],
      [title |-> TitleABCE, source |-> BBCNews, link |-> <<"h","t","t","p","s",":","/","/","a",".","c","o","m","/","x","/","?","u","t","m","_","s","o","u","r","c","e","=","t">>],
      [title |-> TitleABEF, source |-> Reuters, link |-> <<"h","t","t","p","s",":","/","/","b",".","c","o","m","/","y">>] }

\* seen_urls as a call's loop reads it, shared with a call that runs at the
\* same time: the entries of the other call show through where the call has
\* none of its own and the index they give exists in its url_deduped (n entries)
LocalSeenUrls_Shared(own, foreign, n) ==
    own @@ [u \in {v \in DOMAIN foreign : foreign[v] <= n} |-> foreign[u]]

\* seen_urls as a call's loop reads it: the dict is created by the call
\* (seen_urls = {} at its start), so it holds the call's own entries and
\* nothing of the dict foreign of a call that runs at the same time
LocalSeenUrls(own, foreign, n) == own

InitConcurrent ==
    /\ articles \in ListsUpTo(ConcurrentPool, MaxArticles)
    /\ similarity_threshold \in Thresholds
    /\ pc = "phase1"
    /\ pos = 1
    /\ seen_urls = <<>>
    /\ url_deduped = <<>>
    /\ result = <<>>
    /\ peer \in {[articles |-> X, similarity_threshold |-> Ratio(3, 5), pc |-> "phase1",
                  pos |-> 1, seen_urls |-> <<>>, url_deduped |-> <<>>, result |-> <<>>] :
                    X \in ListsUpTo(ConcurrentPool, MaxPeerArticles)}
    /\ Elsewhere

\* one iteration of `for article in articles` in the second call
PeerPhase1Iter ==
    /\ peer.pc = "phase1"
    /\ peer.pos <= Len(peer.articles)
    /\ LET s == Phase1Body(peer.articles,
                           LocalSeenUrls(peer.seen_urls, seen_urls, Len(peer.url_deduped)),
                           peer.url_deduped, peer.pos)
       IN  peer' = [peer EXCEPT !.seen_urls = s.seen_urls,
                                !.url_deduped = s.url_deduped,
                                !.pos = peer.pos + 1]
    /\ UNCHANGED <<dedup_vars, elsewhere>>

\* the first loop of the second call is exhausted: result = []
PeerPhase1End ==
    /\ peer.pc = "phase1"
    /\ peer.pos > Len(peer.articles)
    /\ peer' = [peer EXCEPT !.pc = "phase2", !.pos = 1, !.result = <<>>]
    /\ UNCHANGED <<dedup_vars, elsewhere>>

\* one iteration of `for article in url_deduped` in the second call
PeerPhase2Iter ==
    /\ peer.pc = "phase2"
    /\ peer.pos <= Len(peer.url_deduped)
    /\ peer' = [peer EXCEPT !.result = Phase2Body(peer.articles, peer.similarity_threshold,
                                                  peer.result, peer.url_deduped[peer.pos]),
                            !.pos = peer.pos + 1]
    /\ UNCHANGED <<dedup_vars, elsewhere>>

\* the second loop of the second call is exhausted: it returns result
PeerReturn ==
    /\ peer.pc = "phase2"
    /\ peer.pos > Len(peer.url_deduped)
    /\ peer' = [peer EXCEPT !.pc = "done"]
    /\ UNCHANGED <<dedup_vars, elsewhere>>

NextConcurrent ==
    \/ Phase1Iter \/ Phase1End \/ Phase2Iter \/ Return
    \/ PeerPhase1Iter \/ PeerPhase1End \/ PeerPhase2Iter \/ PeerReturn

SpecConcurrent == InitConcurrent /\ [][NextConcurrent]_vars

(***************************************************************************)
(* _select_articles_for_ai (src/processing/ai_analyzer.py): the articles   *)
(* sent to the language model, at most max_count of them.                  *)
(***************************************************************************)
CASUALTY_KEYWORDS ==
    { <<"k","i","l","l","e","d">>,
      <<"d","e","a","d">>,
      <<"w","o","u","n","d","e","d">>,
      <<"i","n","j","u","r","e","d">>,
      <<"h","u","r","t">>,
      <<"c","a","s","u","a","l","t","i","e","s">>,
      <<"f","a","t","a","l","i","t","i","e","s">> }

\* the largest max_count tried
MaxSelectCount == 4

\* titles with a casualty keyword, with one inside a longer word and in upper
\* case, and without any
KilledTitle == <<"3"," ","k","i","l","l","e","d"," ","i","n"," ","s","t","r","i","k","e">>

DeadlineTitle == <<"D","E","A","D","L","I","N","E"," ","n","e","a","r","s">>

ThreatTitle == <<"I","r","a","n"," ","t","h","r","e","a","t","e","n","s">>

\* articles as _select_articles_for_ai reads them: the title and the enriched
\* mark the content fetcher sets, either of which may be absent
SelectPool ==
    { [title |-> ThreatTitle, enriched |-> TRUE],
      [title |-> KilledTitle, enriched |-> TRUE],
      [title |-> KilledTitle, enriched |-> FALSE],
      [title |-> DeadlineTitle],
      [title |-> ThreatTitle],
      [enriched |-> FALSE] }

\* any(kw in title_lower for kw in CASUALTY_KEYWORDS), tabulated over the titles
\* of SelectPool and of the articles of a run, and the missing title
HasCasualtyKeyword ==
    [title \in {Get(a, "title", <<>>) : a \in SelectPool \cup RunPool} |->
        \E kw \in CASUALTY_KEYWORDS : IsSubstring(kw, Lower(title))]

\* the list the classifying loop appends the article to
GroupOf(article) ==
    IF Get(article, "enriched", FALSE) THEN "enriched"
    ELSE IF HasCasualtyKeyword[Get(article, "title", <<>>)] THEN "casualty_headlines"
    ELSE "other"

\* the positions of the articles of X the loop appends to the list group, in order
RECURSIVE Classified(_, _, _)
Classified(X, group, k) ==
    IF k > Len(X) THEN <<>>
    ELSE (IF GroupOf(X[k]) = group THEN <<k>> ELSE <<>>) \o Classified(X, group, k + 1)

\* the slice s[:n]
Slice(s, n) ==
    IF n >= Len(s) THEN s
    ELSE IF n >= 0 THEN SubSeq(s, 1, n)
    ELSE IF Len(s) + n > 0 THEN SubSeq(s, 1, Len(s) + n)
    ELSE <<>>

\* _select_articles_for_ai with the last slice taken with the count that
\* remained before the casualty headlines were added
_select_articles_for_ai_StaleRemaining(X, count) ==
    LET enriched == Classified(X, "enriched", 1)
        casualty_headlines == Classified(X, "casualty_headlines", 1)
        other == Classified(X, "other", 1)
        selected1 == Slice(enriched, count)
        remaining1 == count - Len(selected1)
        selected2 == IF remaining1 > 0
                     THEN selected1 \o Slice(casualty_headlines, remaining1)
                     ELSE selected1
    IN  IF remaining1 > 0 THEN selected2 \o Slice(other, remaining1) ELSE selected2

\* _select_articles_for_ai(X, count): the positions in X of the selected articles
_select_articles_for_ai(X, count) ==
    LET enriched == Classified(X, "enriched", 1)
        casualty_headlines == Classified(X, "casualty_headlines", 1)
        other == Classified(X, "other", 1)
        selected1 == Slice(enriched, count)
        remaining1 == count - Len(selected1)
        selected2 == IF remaining1 > 0
                     THEN selected1 \o Slice(casualty_headlines, remaining1)
                     ELSE selected1
        remaining2 == IF remaining1 > 0 THEN count - Len(selected2) ELSE remaining1
    IN  IF remaining2 > 0 THEN selected2 \o Slice(other, remaining2) ELSE selected2

InitSelect ==
    /\ ai_articles \in ListsUpTo(SelectPool, MaxArticles)
    /\ max_count \in 0..MaxSelectCount
    /\ selected = <<>>
    /\ select_pc = "call"
    /\ pc = "idle"
    /\ articles = <<>>
    /\ similarity_threshold = Ratio(3, 5)
    /\ pos = 1
    /\ seen_urls = <<>>
    /\ url_deduped = <<>>
    /\ result = <<>>
    /\ peer = NoCall
    /\ NoRun

\* the call of _select_articles_for_ai, from its first line to its return
SelectArticles ==
    /\ select_pc = "call"
    /\ selected' = _select_articles_for_ai(ai_articles, max_count)
    /\ select_pc' = "returned"
    /\ UNCHANGED <<ai_articles, max_count, dedup_vars, peer, run_vars>>

NextSelect == SelectArticles

SpecSelect == InitSelect /\ [][NextSelect]_vars

(***************************************************************************)
(* run (src/main.py), from its first line to its return or sys.exit, with  *)
(* analyze_all and _call_openai (src/processing/ai_analyzer.py).  The      *)
(* states are those of run once it is entered.  At this revision           *)
(* src/delivery/email_sender.py imports SMTP_SERVER, SMTP_PORT and         *)
(* GMAIL_APP_PASSWORD from src/config.py, which defines none of them, so   *)
(* importing src.main raises ImportError before run exists; run is         *)
(* modelled as a function whose name send_report is bound to a callable    *)
(* that returns a bool, as its definition in email_sender.py does.         *)
(*                                                                         *)
(* log holds one entry for each call that matters here, in order.  The     *)
(* fetchers catch every exception and return lists of articles.  The chat  *)
(* completion is asked for REPORT_SCHEMA with strict = True: an attempt    *)
(* either raises (the API call, or json.loads on a refusal or a truncated  *)
(* answer) or yields a report object.                                      *)
(***************************************************************************)
MAX_RETRIES == 3

RETRY_DELAY_SECONDS == 5

MAX_ARTICLES_FOR_AI == 80

\* Python's None
None == [none |-> TRUE]

\* what one attempt of _call_openai can raise
Failures == {[raised |-> "APIError"], [raised |-> "JSONDecodeError"]}

\* the report a successful attempt parses
Reports == {[status |-> "קריטי"]}

\* _quiet_day_report(), by its status
_quiet_day_report == [status |-> "שקט"]

\* the argument run passes to deduplicate
DedupInput_Unfiltered(fetched, filtered) == fetched

DedupInput(fetched, filtered) == filtered

\* `if attempt < MAX_RETRIES - 1` before time.sleep
SleepsAfter_Always(n) == n < MAX_RETRIES

SleepsAfter(n) == n < MAX_RETRIES - 1

\* the messages of the request: the selected articles, in the order of the prompt
Messages(X) == Select(X, _select_articles_for_ai(X, MAX_ARTICLES_FOR_AI))

\* report_text and status as the format phase of run assigns them
ReportText_NoFallback(data, X) ==
    [format |-> "format_report", of |-> data, status |-> Get(data, "status", "שקט")]

ReportText(data, X) ==
    IF data # None
    THEN [format |-> "format_report", of |-> data, status |-> Get(data, "status", "שקט")]
    ELSE [format |-> "format_fallback_report", of |-> Slice(X, 30), status |-> "לא ידוע"]

\* an entry of log
Called(fn, value) == [fn |-> fn, event |-> "call", value |-> value]

Returned(fn, value) == [fn |-> fn, event |-> "return", value |-> value]

InitRun ==
    /\ run_pc = "start"
    /\ force \in BOOLEAN
    /\ all_articles = <<>>
    /\ relevant = <<>>
    /\ run_deduped = <<>>
    /\ report_data = Unset
    /\ report_text = Unset
    /\ attempt = 0
    /\ log = <<>>
    /\ pc = "idle"
    /\ articles = <<>>
    /\ similarity_threshold = Ratio(3, 5)
    /\ pos = 1
    /\ seen_urls = <<>>
    /\ url_deduped = <<>>
    /\ result = <<>>
    /\ peer = NoCall
    /\ NoSelect

\* `if not force and not is_within_send_window(): return`
CheckWindow ==
    /\ run_pc = "start"
    /\ \E within \in BOOLEAN :
        run_pc' = IF ~force /\ ~within THEN "outside" ELSE "fetch"
    /\ UNCHANGED <<force, all_articles, relevant, run_deduped, report_data, report_text,
                   attempt, log>>
    /\ UNCHANGED <<dedup_vars, peer, select_vars>>

\* all_articles = google_articles + direct_articles
Fetch ==
    /\ run_pc = "fetch"
    /\ all_articles' \in ListsUpTo(RunPool, MaxArticles)
    /\ run_pc' = "filter"
    /\ UNCHANGED <<force, relevant, run_deduped, report_data, report_text, attempt, log>>
    /\ UNCHANGED <<dedup_vars, peer, select_vars>>

\* relevant = filter_relevant(all_articles)
Filter ==
    /\ run_pc = "filter"
    /\ relevant' = filter_relevant(all_articles)
    /\ log' = log \o <<Called("filter_relevant", all_articles),
                       Returned("filter_relevant", filter_relevant(all_articles))>>
    /\ run_pc' = "dedup"
    /\ UNCHANGED <<force, all_articles, run_deduped, report_data, report_text, attempt>>
    /\ UNCHANGED <<dedup_vars, peer, select_vars>>

\* the call deduplicate(relevant), with the default similarity_threshold
DedupCall ==
    /\ run_pc = "dedup"
    /\ pc = "idle"
    /\ articles' = DedupInput(all_articles, relevant)
    /\ similarity_threshold' = Ratio(3, 5)
    /\ pc' = "phase1"
    /\ pos' = 1
    /\ seen_urls' = <<>>
    /\ url_deduped' = <<>>
    /\ result' = <<>>
    /\ log' = Append(log, Called("deduplicate", DedupInput(all_articles, relevant)))
    /\ run_pc' = "in_dedup"
    /\ UNCHANGED <<force, all_articles, relevant, run_deduped, report_data, report_text,
                   attempt>>
    /\ UNCHANGED <<peer, select_vars>>

\* deduped = the list deduplicate returned
DedupReturn ==
    /\ run_pc = "in_dedup"
    /\ pc = "done"
    /\ run_deduped' = Select(articles, result)
    /\ log' = Append(log, Returned("deduplicate", Select(articles, result)))
    /\ run_pc' = "analyze"
    /\ UNCHANGED <<force, all_articles, relevant, report_data, report_text, attempt>>
    /\ UNCHANGED <<dedup_vars, peer, select_vars>>

\* report_data = analyze_all(deduped), up to the call of _call_openai: no
\* articles give the quiet-day report at once
AnalyzeCall ==
    /\ run_pc = "analyze"
    /\ IF run_deduped = <<>>
       THEN /\ report_data' = _quiet_day_report
            /\ log' = log \o <<Called("analyze_all", run_deduped),
                               Returned("analyze_all", _quiet_day_report)>>
            /\ run_pc' = "format"
       ELSE /\ report_data' = report_data
            /\ log' = log \o <<Called("analyze_all", run_deduped),
                               Called("_call_openai", Messages(run_deduped))>>
            /\ run_pc' = "openai"
    /\ attempt' = 0
    /\ UNCHANGED <<force, all_articles, relevant, run_deduped, report_text>>
    /\ UNCHANGED <<dedup_vars, peer, select_vars>>

\* one iteration of `for attempt in range(MAX_RETRIES)`: the request, and
\* either the return of the parsed report or the except branch
OpenAIAttempt ==
    /\ run_pc = "openai"
    /\ attempt < MAX_RETRIES
    /\ \E outcome \in Failures \cup Reports :
        IF outcome \in Reports
        THEN /\ log' = log \o <<Called("create", Messages(run_deduped)),
                                Returned("create", outcome),
                                Returned("_call_openai", outcome),
                                Returned("analyze_all", outcome)>>
             /\ report_data' = outcome
             /\ run_pc' = "format"
             /\ attempt' = attempt
        ELSE /\ log' = log \o <<Called("create", Messages(run_deduped)),
                                Returned("create", outcome)>>
                           \o (IF SleepsAfter(attempt)
                               THEN <<Called("sleep", RETRY_DELAY_SECONDS)>>
                               ELSE <<>>)
             /\ report_data' = report_data
             /\ run_pc' = "openai"
             /\ attempt' = attempt + 1
    /\ UNCHANGED <<force, all_articles, relevant, run_deduped, report_text>>
    /\ UNCHANGED <<dedup_vars, peer, select_vars>>

\* the loop is exhausted: _call_openai and analyze_all return None
OpenAIGiveUp ==
    /\ run_pc = "openai"
    /\ attempt >= MAX_RETRIES
    /\ report_data' = None
    /\ log' = log \o <<Returned("_call_openai", None), Returned("analyze_all", None)>>
    /\ run_pc' = "format"
    /\ UNCHANGED <<force, all_articles, relevant, run_deduped, report_text, attempt>>
    /\ UNCHANGED <<dedup_vars, peer, select_vars>>

\* format_report(report_data, ...) or format_fallback_report(deduped, ...)
Format ==
    /\ run_pc = "format"
    /\ report_text' = ReportText(report_data, run_deduped)
    /\ log' = Append(log, Returned(ReportText(report_data, run_deduped).format,
                                   ReportText(report_data, run_deduped)))
    /\ run_pc' = "deliver"
    /\ UNCHANGED <<force, all_articles, relevant, run_deduped, report_data, attempt>>
    /\ UNCHANGED <<dedup_vars, peer, select_vars>>

\* success = send_report(subject, report_text); sys.exit(1) without success
Deliver ==
    /\ run_pc = "deliver"
    /\ \E success \in BOOLEAN :
        /\ log' = log \o <<Called("send_report", report_text),
                           Returned("send_report", success)>>
        /\ run_pc' = IF success THEN "returned" ELSE "SystemExit"
    /\ UNCHANGED <<force, all_articles, relevant, run_deduped, report_data, report_text,
                   attempt>>
    /\ UNCHANGED <<dedup_vars, peer, select_vars>>

NextRun ==
    \/ CheckWindow \/ Fetch \/ Filter \/ DedupCall
    \/ Phase1Iter \/ Phase1End \/ Phase2Iter \/ Return
    \/ DedupReturn \/ AnalyzeCall \/ OpenAIAttempt \/ OpenAIGiveUp \/ Format \/ Deliver

SpecRun == InitRun /\ [][NextRun]_vars

TypeOK ==
    /\ pc \in {"idle", "phase1", "phase2", "done", "KeyError", "ValueError"}
    /\ \A k \in DOMAIN url_deduped : url_deduped[k] \in DOMAIN articles
    /\ \A k \in DOMAIN result : result[k] \in DOMAIN articles
    /\ pc = "done" => result = deduplicate(articles, similarity_threshold)

(***************************************************************************)
(* Properties of deduplicate.                                              *)
(***************************************************************************)
Done == pc = "done"

\* the article at position k of the returned list
Out(k) == articles[result[k]]

UrlOf(a) == NormUrl[a.link]

RankOf(a) == Rank[a.source]

\* title similarity >= similarity_threshold
Similar(a, b) == RatioGeq(Similarity[a.title][b.title], similarity_threshold)

\* title similarity = similarity_threshold exactly
AtThreshold(a, b) ==
    /\ RatioGeq(Similarity[a.title][b.title], similarity_threshold)
    /\ RatioGeq(similarity_threshold, Similarity[a.title][b.title])

\* C1: any two distinct entries of the returned list have title similarity
\* strictly below the threshold.
C1_PairwiseBelowThreshold ==
    Done => \A i, j \in DOMAIN result : i # j => ~Similar(Out(i), Out(j))

\* C2: deduplicate is idempotent: applied to its own output it returns that
\* list again, the same articles in the same order.
C2_Idempotent ==
    Done => deduplicate(Select(articles, result), similarity_threshold)
                = [k \in DOMAIN result |-> k]

\* C3: every input article is in the output or is a duplicate of an output
\* article: same normalized URL, or title similarity >= threshold.
C3_EveryInputCovered ==
    Done => \A k \in DOMAIN articles :
                \/ \E i \in DOMAIN result : result[i] = k
                \/ \E i \in DOMAIN result :
                       \/ UrlOf(Out(i)) = UrlOf(articles[k])
                       \/ Similar(Out(i), articles[k])

\* C4: an output article has the lowest source rank among the input articles
\* whose title similarity with it is >= threshold.
C4_SurvivorMostTrusted ==
    Done => \A i \in DOMAIN result : \A k \in DOMAIN articles :
                Similar(Out(i), articles[k]) => RankOf(Out(i)) <= RankOf(articles[k])

\* C5: no two distinct entries of the output have the same normalized URL.
C5_UniqueNormalizedUrl ==
    Done => \A i, j \in DOMAIN result : i # j => UrlOf(Out(i)) # UrlOf(Out(j))

\* C5 witness: two inputs with different links and one normalized URL went
\* through, and the output has two entries.
C5_Witness ==
    /\ Done
    /\ Len(result) >= 2
    /\ \E k, m \in DOMAIN articles :
           /\ articles[k].link # articles[m].link
           /\ UrlOf(articles[k]) = UrlOf(articles[m])

\* C6: every output article has the lowest source rank among the input
\* articles of its normalized URL, and is the first in the input among those
\* of that rank.
C6_LowestRankFirstPerUrl ==
    Done => \A i \in DOMAIN result : \A k \in DOMAIN articles :
                UrlOf(articles[k]) = UrlOf(Out(i)) =>
                    \/ RankOf(Out(i)) < RankOf(articles[k])
                    \/ RankOf(Out(i)) = RankOf(articles[k]) /\ result[i] <= k

\* C6 witness: an output article replaced an earlier, less trusted article of
\* its URL and stood against a later one of its own rank.
C6_Witness ==
    /\ Done
    /\ \E i \in DOMAIN result : \E k, m \in DOMAIN articles :
           /\ k < result[i] /\ result[i] < m
           /\ UrlOf(articles[k]) = UrlOf(Out(i))
           /\ UrlOf(articles[m]) = UrlOf(Out(i))
           /\ RankOf(articles[k]) > RankOf(Out(i))
           /\ RankOf(articles[m]) = RankOf(Out(i))

\* C7: the output is never longer than the input; it is empty for the empty
\* input and non-empty for every non-empty input.
C7_NeverGrows ==
    Done => /\ Len(result) <= Len(articles)
            /\ articles = <<>> => result = <<>>
            /\ articles # <<>> => result # <<>>

\* C7 witness: a call that replaced an entry in place in phase 2 and returned
\* fewer articles than it was given.
C7_Witness ==
    /\ Done
    /\ Len(url_deduped) = Len(articles)
    /\ Len(result) < Len(articles)
    /\ \E i \in DOMAIN result : result[i] # url_deduped[i]

\* C8: two articles with the same normalized URL give exactly one article: the
\* one of lower source rank wherever it stands, the first one on equal ranks.
C8_TwoSameUrl ==
    (Done /\ Len(articles) = 2 /\ UrlOf(articles[1]) = UrlOf(articles[2]))
        => result = IF RankOf(articles[2]) < RankOf(articles[1]) THEN <<2>> ELSE <<1>>

\* C8 witness: the second of two same-URL articles, the more trusted, is returned.
C8_Witness ==
    /\ Done
    /\ Len(articles) = 2
    /\ articles[1].link # articles[2].link
    /\ UrlOf(articles[1]) = UrlOf(articles[2])
    /\ RankOf(articles[2]) < RankOf(articles[1])
    /\ result = <<2>>

\* C9: two articles with different normalized URLs and title similarity >=
\* threshold give exactly one article: the one of lower source rank wherever it
\* stands, the first one on equal ranks.
C9_TwoSimilarTitles ==
    (/\ Done
     /\ Len(articles) = 2
     /\ UrlOf(articles[1]) # UrlOf(articles[2])
     /\ Similar(articles[1], articles[2]))
        => result = IF RankOf(articles[2]) < RankOf(articles[1]) THEN <<2>> ELSE <<1>>

\* C9 witness: Reuters in second place is kept over BBC News in first place.
C9_Witness ==
    /\ Done
    /\ Len(articles) = 2
    /\ UrlOf(articles[1]) # UrlOf(articles[2])
    /\ Similar(articles[1], articles[2])
    /\ articles[1].source = BBCNews
    /\ articles[2].source = Reuters
    /\ result = <<2>>

\* C10: the phase-2 test is inclusive: two articles with different normalized
\* URLs are merged when their title similarity is >= threshold, equality
\* included, and both kept when it is strictly below.
C10_InclusiveThreshold ==
    (Done /\ Len(articles) = 2 /\ UrlOf(articles[1]) # UrlOf(articles[2]))
        => /\ Similar(articles[1], articles[2]) => Len(result) = 1
           /\ ~Similar(articles[1], articles[2]) => result = <<1, 2>>

\* C10 witness: intersection 3, union 5 at threshold 0.6: merged.
C10_Witness ==
    /\ Done
    /\ Len(articles) = 2
    /\ UrlOf(articles[1]) # UrlOf(articles[2])
    /\ similarity_threshold = Ratio(3, 5)
    /\ Similarity[articles[1].title][articles[2].title] = Ratio(3, 5)
    /\ AtThreshold(articles[1], articles[2])
    /\ Len(result) = 1

\* the input article at position k has no duplicate in the input: no other
\* input article has its normalized URL or a title similarity >= threshold with it
Distinct(k) ==
    \A m \in DOMAIN articles : m # k =>
        /\ UrlOf(articles[m]) # UrlOf(articles[k])
        /\ ~Similar(articles[m], articles[k])

\* C11: an input article whose normalized URL differs from that of every other
\* input article and whose title similarity with every other input article is
\* below the threshold is in the output.
C11_DistinctSurvives ==
    Done => \A k \in DOMAIN articles :
                Distinct(k) => \E i \in DOMAIN result : result[i] = k

\* C11 witness: a distinct article stands last in an input of three whose
\* other two articles were merged on their titles.
C11_Witness ==
    /\ Done
    /\ Len(articles) = 3
    /\ Distinct(3)
    /\ Similar(articles[1], articles[2])
    /\ UrlOf(articles[1]) # UrlOf(articles[2])
    /\ Len(result) = 2
    /\ result[2] = 3

\* C12: deduplicate never raises on articles that lack the link, the title or
\* the source: no KeyError leaves the call.
C12_NeverRaisesOnMissingField == pc # "KeyError"

\* C13: a failure of URL parsing is contained: no ValueError of urlparse
\* leaves the call.
C13_ParseFailureContained == pc # "ValueError"

\* the link of the article is missing or empty
Linkless(a) == Get(a, "link", <<>>) = <<>>

\* the first loop has handled input position k
Phase1Handled(k) == pc # "phase1" \/ k < pos

\* C14: the URL normalizer maps the empty URL, which also stands for a missing
\* link, to the empty string: once phase 1 has handled an article without a
\* link, the empty string is a key of seen_urls.
C14_EmptyUrlNormalizesToEmpty ==
    \A k \in DOMAIN articles :
        Phase1Handled(k) /\ Linkless(articles[k]) => <<>> \in DOMAIN seen_urls

\* C15: when no input article has a link, phase 1 keeps exactly one article
\* and a non-empty input returns exactly one article, the one of lowest source
\* rank, the first in input order among equals.
C15_LinklessCollapse ==
    (articles # <<>> /\ \A k \in DOMAIN articles : Linkless(articles[k])) =>
        /\ pc \in {"phase2", "done"} => Len(url_deduped) = 1
        /\ Done =>
            /\ Len(result) = 1
            /\ \A k \in DOMAIN articles :
                   /\ RankOf(Out(1)) <= RankOf(articles[k])
                   /\ RankOf(Out(1)) = RankOf(articles[k]) => result[1] <= k

\* C15 witness: three articles without a link, one with the key missing and
\* one with an empty link, pairwise dissimilar titles, the lowest rank shared
\* by the second and the third: the second alone is returned.
C15_Witness ==
    /\ Done
    /\ Len(articles) = 3
    /\ \A k \in DOMAIN articles : Linkless(articles[k])
    /\ \E k \in DOMAIN articles : ~Has(articles[k], "link")
    /\ \E k \in DOMAIN articles : Has(articles[k], "link")
    /\ \A k, m \in DOMAIN articles : k # m => ~Similar(articles[k], articles[m])
    /\ RankOf(articles[2]) < RankOf(articles[1])
    /\ RankOf(articles[3]) = RankOf(articles[2])
    /\ result = <<2>>

\* the (name, value) pairs whose lowercased name is not a tracking key
RECURSIVE OtherParams(_)
OtherParams(params) ==
    IF params = <<>> THEN <<>>
    ELSE (IF Lower(Head(params)[1]) \notin tracking_keys THEN <<Head(params)>> ELSE <<>>)
         \o OtherParams(Tail(params))

\* what a link designates once tracking parameters and the '/' after the path
\* are set aside: its base and its other parameters
Resource ==
    [l \in UrlLinks |->
        LET form == CHOOSE f \in UrlForms : UrlText(f) = l
        IN  [base |-> form.base, params |-> OtherParams(form.params)]]

\* C16: two URLs with the same scheme, host, path and non-tracking parameters,
\* differing only by tracking parameters and by a '/' after the path, have the
\* same normalized URL: phase 1 files two such articles under one key of
\* seen_urls.
C16_SameResourceSameKey ==
    \A k, m \in DOMAIN articles :
        (/\ Phase1Handled(k) /\ Phase1Handled(m)
         /\ Resource[articles[k].link] = Resource[articles[m].link])
        => seen_urls[UrlOf(articles[k])] = seen_urls[UrlOf(articles[m])]

\* the fields name=value of the query of a URL
QueryFields(url) ==
    Bind(urlparse(url).query, LAMBDA query :
        IF query = <<>> THEN {} ELSE Range(Split(query, "&")))

\* the fields of the query of a link whose lowercased name is not a tracking key
OtherFields ==
    [l \in UrlLinks |->
        {field \in QueryFields(l) : Lower(Partition(field, "=")[1]) \notin tracking_keys}]

\* the fields of the query of the normalized URL of a link
KeptFields == [l \in UrlLinks |-> QueryFields(NormUrl[l])]

\* C17: the normalized URL keeps exactly the query parameters of the link
\* whose lowercased name is not in the blocklist, and a link whose parameters
\* are all blocklisted is filed under a key without '?'.
C17_KeepsOtherParameters ==
    \A k \in DOMAIN articles :
        Phase1Handled(k) =>
            /\ UrlOf(articles[k]) \in DOMAIN seen_urls
            /\ KeptFields[articles[k].link] = OtherFields[articles[k].link]
            /\ OtherFields[articles[k].link] = {} => "?" \notin Range(UrlOf(articles[k]))

\* _tokenize(title), tabulated over the modelled titles
Tokens == [t \in ModelledTitles |-> _tokenize(t)]

\* |A \cap B| / |A \cup B|, and 0 when A or B is empty
Jaccard(A, B) ==
    IF A = {} \/ B = {} THEN Ratio(0, 1)
    ELSE Ratio(Cardinality(A \cap B), Cardinality(A \cup B))

\* a = b for two floats given as ratios
RatioEq(a, b) == a[1] * b[2] = b[1] * a[2]

\* C18: the title similarity of any two input articles is the Jaccard score of
\* their token sets, 0 when either set is empty; it lies in [0,1], is
\* symmetric, and is 1 exactly when the two sets are equal and non-empty.
C18_JaccardScore ==
    \A k, m \in DOMAIN articles :
        LET a == articles[k].title
            b == articles[m].title
            sim == Similarity[a][b]
        IN  /\ RatioEq(sim, Jaccard(Tokens[a], Tokens[b]))
            /\ Tokens[a] = {} \/ Tokens[b] = {} => sim[1] = 0
            /\ sim[2] > 0 /\ 0 <= sim[1] /\ sim[1] <= sim[2]
            /\ RatioEq(sim, Similarity[b][a])
            /\ RatioEq(sim, Ratio(1, 1)) <=> (Tokens[a] = Tokens[b] /\ Tokens[a] # {})

\* C18 witness: at threshold 1.0 two articles under different URLs whose
\* titles are different texts with the same two tokens are merged.
C18_Witness ==
    /\ Done
    /\ similarity_threshold = Ratio(1, 1)
    /\ Len(articles) = 2
    /\ articles[1].title # articles[2].title
    /\ Tokens[articles[1].title] = Tokens[articles[2].title]
    /\ Cardinality(Tokens[articles[1].title]) = 2
    /\ UrlOf(articles[1]) # UrlOf(articles[2])
    /\ result = <<1>>

\* the title of the article has no token
Tokenless(a) == Tokens[a.title] = {}

\* C19: phase 2 never merges on an empty title: input articles whose titles
\* have no token and whose normalized URLs differ from those of all other
\* input articles are all in the output, at every threshold.
C19_TokenlessNeverMerged ==
    Done => \A k \in DOMAIN articles :
                (/\ Tokenless(articles[k])
                 /\ \A m \in DOMAIN articles \ {k} : UrlOf(articles[m]) # UrlOf(articles[k]))
                => \E i \in DOMAIN result : result[i] = k

\* the 0-based indexes of the entries of SOURCE_PRIORITY that occur in the
\* source name, case set aside, tabulated over the modelled sources
Matches ==
    [s \in ModelledSources |->
        {i \in 0..(Len(SOURCE_PRIORITY) - 1) :
            IsSubstring(Lower(SOURCE_PRIORITY[i + 1]), Lower(s))}]

\* C20: the rank of the source of any input article is the smallest index of
\* a priority entry that occurs case-insensitively in the name, and 8, the
\* length of the list, when none does; it lies in 0..8.
C20_RankIsFirstMatch ==
    \A k \in DOMAIN articles :
        LET s == articles[k].source IN
        /\ Rank[s] \in 0..8
        /\ Matches[s] = {} => Rank[s] = Len(SOURCE_PRIORITY) /\ Rank[s] = 8
        /\ Matches[s] # {} => Rank[s] \in Matches[s] /\ \A i \in Matches[s] : Rank[s] <= i

\* C20 witness: under one URL, a source naming two outlets of the list comes
\* after a lower-case canonical name and after an unknown source: it has the
\* rank of the outlet listed first, so the lower-case name, of lower rank, is kept.
C20_Witness ==
    /\ Done
    /\ Len(articles) = 3
    /\ UrlOf(articles[1]) = UrlOf(articles[2]) /\ UrlOf(articles[2]) = UrlOf(articles[3])
    /\ Matches[articles[1].source] = {}
    /\ Matches[articles[2].source] = {1}
    /\ Matches[articles[3].source] = {4, 5}
    /\ RankOf(articles[3]) = 4
    /\ result = <<2>>

\* the entries of the list of input positions ps are input positions, each
\* used at most once
DistinctPositions(ps) ==
    /\ \A i \in DOMAIN ps : ps[i] \in DOMAIN articles
    /\ \A i, j \in DOMAIN ps : ps[i] = ps[j] => i = j

\* C21: deduplicate leaves its input unchanged: no step changes the input list
\* or an article of it, and every entry of url_deduped and of the output is
\* one of the input articles, each input position used at most once.
C21_InputUnchanged ==
    /\ [][articles' = articles]_vars
    /\ [](DistinctPositions(url_deduped) /\ DistinctPositions(result))

\* C21 witness: a call has returned after a replacement in each phase: of
\* three input articles the output holds the last one only, in the slot the
\* first one opened.
C21_Witness ==
    /\ Done
    /\ Len(articles) = 3
    /\ UrlOf(articles[1]) = UrlOf(articles[2])
    /\ RankOf(articles[2]) < RankOf(articles[1])
    /\ UrlOf(articles[3]) # UrlOf(articles[1])
    /\ RankOf(articles[3]) < RankOf(articles[2])
    /\ Similar(articles[2], articles[3])
    /\ result = <<3>>

\* C22: two calls of deduplicate that run at the same time on independent
\* lists do not interfere: however their steps interleave, each returns the
\* list it returns when run alone, and a step of one call changes nothing of
\* the other.
C22_NoInterference ==
    /\ [](Done => result = deduplicate(articles, similarity_threshold))
    /\ [](peer.pc = "done" =>
              peer.result = deduplicate(peer.articles, peer.similarity_threshold))
    /\ [][peer' # peer =>
              UNCHANGED <<articles, similarity_threshold, pc, pos, seen_urls, url_deduped, result>>]_vars
    /\ [][<<seen_urls, url_deduped, result>>' # <<seen_urls, url_deduped, result>> =>
              peer' = peer]_vars

\* C22 witness: the second call has looked up, in its first loop, a URL the
\* first call holds in its seen_urls, while the first call is in its second
\* loop; the URL is new to the second call.
C22_Witness ==
    /\ pc = "phase2"
    /\ pos = 2
    /\ peer.pc = "phase1"
    /\ peer.pos = 2
    /\ Len(peer.articles) = 2
    /\ UrlOf(peer.articles[1]) \in DOMAIN seen_urls
    /\ UrlOf(peer.articles[2]) \in DOMAIN seen_urls
    /\ UrlOf(peer.articles[2]) \notin DOMAIN peer.seen_urls
    /\ peer.url_deduped = <<1>>

\* the distinct normalized URLs of the first n input articles, in order of
\* first occurrence
RECURSIVE FirstSeen(_)
FirstSeen(n) ==
    IF n = 0 THEN <<>>
    ELSE LET earlier == FirstSeen(n - 1)
             url == UrlOf(articles[n])
         IN  IF \E i \in DOMAIN earlier : earlier[i] = url THEN earlier
             ELSE Append(earlier, url)

\* the number of input articles the first loop has handled
Phase1Count == IF pc = "phase1" THEN pos - 1 ELSE Len(articles)

\* C24: phase 1 keeps its slots in first-seen order: slot i of url_deduped
\* holds an article with the i-th distinct normalized URL of the articles
\* handled so far; a step of phase 1 either appends the article, or puts it in
\* the one slot of its URL when it is more trusted, or changes nothing, and
\* never changes the length otherwise or another slot.
C24_FirstSeenSlots ==
    /\ []([i \in DOMAIN url_deduped |-> UrlOf(articles[url_deduped[i]])]
              = FirstSeen(Phase1Count))
    /\ [][pc = "phase1" /\ pc' = "phase1" =>
              \/ url_deduped' = url_deduped
              \/ url_deduped' = Append(url_deduped, pos)
              \/ \E i \in DOMAIN url_deduped :
                     /\ url_deduped' = [url_deduped EXCEPT ![i] = pos]
                     /\ UrlOf(articles[url_deduped[i]]) = UrlOf(articles[pos])
                     /\ RankOf(articles[pos]) < RankOf(articles[url_deduped[i]])]_vars

\* C24 witness: after phase 1 of three articles, the third, a more trusted
\* duplicate of the first, stands in the first slot and the second article,
\* under another URL, in the second.
C24_Witness ==
    /\ pc = "phase2"
    /\ Len(articles) = 3
    /\ UrlOf(articles[3]) = UrlOf(articles[1])
    /\ UrlOf(articles[2]) # UrlOf(articles[1])
    /\ RankOf(articles[3]) < RankOf(articles[1])
    /\ url_deduped = <<3, 2>>

\* the indexes of the accepted entries the article at input position k is
\* similar to
SimilarEntries(k) ==
    {i \in DOMAIN result : Similar(articles[k], articles[result[i]])}

\* C25: a step of phase 2 appends the article at the end when it is similar
\* to no accepted entry; otherwise it compares the article with the
\* lowest-index similar entry only, puts the article in that slot iff its
\* source rank is strictly lower, appends nothing and leaves every other
\* entry, the later similar ones included, unchanged.
C25_FirstMatchOnly ==
    [][pc = "phase2" /\ pc' = "phase2" =>
          LET k == url_deduped[pos]
              S == SimilarEntries(k)
          IN  IF S = {} THEN result' = Append(result, k)
              ELSE LET i == CHOOSE m \in S : \A n \in S : m <= n
                   IN  /\ RankOf(articles[k]) < RankOf(articles[result[i]])
                           => result' = [result EXCEPT ![i] = k]
                       /\ RankOf(articles[k]) >= RankOf(articles[result[i]])
                           => result' = result]_vars

\* C25 witness: the third article is similar to both accepted entries, which
\* are not similar to each other; it is more trusted than the first and
\* stands in its slot, the second entry is as it was.
C25_Witness ==
    /\ Done
    /\ Len(articles) = 3
    /\ url_deduped = <<1, 2, 3>>
    /\ ~Similar(articles[1], articles[2])
    /\ Similar(articles[3], articles[1])
    /\ Similar(articles[3], articles[2])
    /\ RankOf(articles[3]) < RankOf(articles[1])
    /\ result = <<3, 2>>

\* from the list of input positions ps to qs, no slot is lost and the source
\* rank of the article in each slot of ps has not increased
SlotsImprove(ps, qs) ==
    /\ Len(qs) >= Len(ps)
    /\ \A i \in DOMAIN ps : RankOf(articles[qs[i]]) <= RankOf(articles[ps[i]])

\* C26: slots only improve: no step shrinks url_deduped or result or raises
\* the source rank of the article in one of their slots; and for every input
\* article absent from the output, some output article has a source rank less
\* than or equal to its rank.
C26_SlotsOnlyImprove ==
    /\ [][SlotsImprove(url_deduped, url_deduped') /\ SlotsImprove(result, result')]_vars
    /\ [](Done => \A k \in DOMAIN articles :
                      (\A i \in DOMAIN result : result[i] # k)
                      => \E i \in DOMAIN result : RankOf(Out(i)) <= RankOf(articles[k]))

\* C26 witness: of three articles the second alone is returned: it took the
\* slot of the first, a less trusted article under the same URL, and the
\* third, under another URL, has a similar title and is not more trusted.
C26_Witness ==
    /\ Done
    /\ Len(articles) = 3
    /\ UrlOf(articles[2]) = UrlOf(articles[1])
    /\ RankOf(articles[2]) < RankOf(articles[1])
    /\ UrlOf(articles[3]) # UrlOf(articles[2])
    /\ Similar(articles[3], articles[2])
    /\ RankOf(articles[3]) >= RankOf(articles[2])
    /\ result = <<2>>

\* 'title similarity >= threshold' is transitive over the input articles
TransitiveSimilarity ==
    \A a, b, c \in DOMAIN articles :
        (a # b /\ b # c /\ a # c
         /\ Similar(articles[a], articles[b]) /\ Similar(articles[b], articles[c]))
        => Similar(articles[a], articles[c])

\* C27: when title similarity is transitive over the input and the threshold
\* is above 0, the output holds exactly one article per similarity class of
\* the phase-1 survivors: every survivor is in the output or similar to an
\* output entry, to one entry only, and the output entries are pairwise below
\* the threshold.
C27_OnePerClass ==
    (Done /\ TransitiveSimilarity /\ ~RatioGeq(Ratio(0, 1), similarity_threshold)) =>
        /\ \A s \in DOMAIN url_deduped :
               Cardinality({i \in DOMAIN result :
                               \/ result[i] = url_deduped[s]
                               \/ Similar(articles[url_deduped[s]], Out(i))}) = 1
        /\ \A i, j \in DOMAIN result : i # j => ~Similar(Out(i), Out(j))

\* C27 witness: three articles under three URLs, the similarity transitive:
\* the first and the third are similar, the second is similar to neither; the
\* output has one entry for each of the two classes.
C27_Witness ==
    /\ Done
    /\ TransitiveSimilarity
    /\ ~RatioGeq(Ratio(0, 1), similarity_threshold)
    /\ Len(articles) = 3
    /\ url_deduped = <<1, 2, 3>>
    /\ Similar(articles[1], articles[3])
    /\ articles[1].title # articles[3].title
    /\ ~Similar(articles[1], articles[2])
    /\ ~Similar(articles[2], articles[3])
    /\ Len(result) = 2

\* the rank of the three groups: enriched first, then casualty headlines,
\* then the rest
GroupRank(article) ==
    CASE GroupOf(article) = "enriched" -> 1
      [] GroupOf(article) = "casualty_headlines" -> 2
      [] OTHER -> 3

\* C28: for max_count >= 0, _select_articles_for_ai returns min(len(articles),
\* max_count) articles, each input article at most once, the enriched ones
\* first, then the casualty headlines, then the rest, each group in input
\* order; an article of a lower group is selected only if every article of
\* the higher groups is.
C28_SelectionOrder ==
    (select_pc = "returned" /\ max_count >= 0) =>
        /\ Len(selected) = (IF Len(ai_articles) <= max_count THEN Len(ai_articles) ELSE max_count)
        /\ \A i \in DOMAIN selected : selected[i] \in DOMAIN ai_articles
        /\ \A i, j \in DOMAIN selected :
               i < j =>
                   \/ GroupRank(ai_articles[selected[i]]) < GroupRank(ai_articles[selected[j]])
                   \/ /\ GroupRank(ai_articles[selected[i]]) = GroupRank(ai_articles[selected[j]])
                      /\ selected[i] < selected[j]
        /\ \A i \in DOMAIN selected : \A m \in DOMAIN ai_articles :
               GroupRank(ai_articles[m]) < GroupRank(ai_articles[selected[i]])
               => \E j \in DOMAIN selected : selected[j] = m

\* C28 witness: of an article of the rest, a casualty headline and an enriched
\* article, in this order, two are selected: the enriched one, then the
\* casualty headline.
C28_Witness ==
    /\ select_pc = "returned"
    /\ max_count = 2
    /\ Len(ai_articles) = 3
    /\ GroupOf(ai_articles[1]) = "other"
    /\ GroupOf(ai_articles[2]) = "casualty_headlines"
    /\ GroupOf(ai_articles[3]) = "enriched"
    /\ selected = <<3, 2>>

(***************************************************************************)
(* Properties of run, analyze_all and _call_openai, read off the calls     *)
(* recorded in log.                                                        *)
(***************************************************************************)
\* the positions in log of the calls of fn, or of its returns
Events(fn, event) == {i \in DOMAIN log : log[i].fn = fn /\ log[i].event = event}

\* run has returned or exited after the send-window check let it proceed
RunEnded == run_pc \in {"returned", "SystemExit"}

\* C23: in a run that proceeds past the send-window check, deduplicate is
\* called exactly once, after filter_relevant returned and with the list it
\* returned, and analyze_all is called exactly once, after deduplicate returned
\* and with the list it returned
C23_PipelineOrder ==
    LET filtered == Events("filter_relevant", "return")
        dedup_calls == Events("deduplicate", "call")
        dedup_returns == Events("deduplicate", "return")
        analyze_calls == Events("analyze_all", "call")
    IN  /\ Cardinality(dedup_calls) <= 1
        /\ Cardinality(analyze_calls) <= 1
        /\ run_pc \in {"in_dedup", "analyze", "openai", "format", "deliver"} \/ RunEnded
              => Cardinality(dedup_calls) = 1
        /\ run_pc \in {"openai", "format", "deliver"} \/ RunEnded
              => Cardinality(analyze_calls) = 1
        /\ \A c \in dedup_calls :
              \E f \in filtered :
                  /\ f < c
                  /\ log[f].value = filter_relevant(all_articles)
                  /\ log[c].value = log[f].value
        /\ \A a \in analyze_calls :
              \E c \in dedup_calls, r \in dedup_returns :
                  /\ c < r /\ r < a
                  /\ log[r].value = Select(log[c].value, deduplicate(log[c].value, Ratio(3, 5)))
                  /\ log[a].value = log[r].value

\* a run that fetched three articles, of which the filter dropped one and
\* deduplicate merged the other two, has ended
C23_Witness ==
    /\ RunEnded
    /\ Len(all_articles) = 3
    /\ Len(relevant) = 2
    /\ Len(run_deduped) = 1
    /\ \E a \in Events("analyze_all", "call") : log[a].value = run_deduped

\* the attempt whose result is recorded at position i of log failed
FailedAt(i) == log[i].value \in Failures

\* C29: _call_openai makes at most MAX_RETRIES requests; a request that
\* succeeds is the last one and its parsed result is returned; None is returned
\* exactly when MAX_RETRIES requests failed; and each wait lasts
\* RETRY_DELAY_SECONDS, follows a failed request and is followed by the next
\* request, so that none follows the last request
C29_RetryLoop ==
    LET requests == Events("create", "call")
        results == Events("create", "return")
        waits == Events("sleep", "call")
        returns == Events("_call_openai", "return")
    IN  /\ Cardinality(requests) <= MAX_RETRIES
        /\ \A i \in results :
              ~FailedAt(i) =>
                  /\ \A j \in requests \cup waits : j < i
                  /\ (i + 1) \in returns
                  /\ log[i + 1].value = log[i].value
        /\ \A r \in returns :
              /\ \A j \in requests \cup waits : j < r
              /\ log[r].value = None
                    <=> /\ Cardinality(results) = MAX_RETRIES
                        /\ \A i \in results : FailedAt(i)
              /\ log[r].value # None
                    => \E i \in results : ~FailedAt(i) /\ log[r].value = log[i].value
              /\ \A w \in waits : (w + 1) \in requests
              /\ log[r - 1].fn = "create"
        /\ \A w \in waits :
              /\ log[w].value = RETRY_DELAY_SECONDS
              /\ (w - 1) \in results
              /\ FailedAt(w - 1)
        /\ \A q \in requests :
              \/ /\ (q - 1) \in Events("_call_openai", "call")
                 /\ log[q - 1].value = log[q].value
              \/ (q - 1) \in waits

\* _call_openai has returned the report of its third request, after two
\* failed requests and two waits
C29_Witness ==
    /\ run_pc = "format"
    /\ report_data \in Reports
    /\ Cardinality(Events("create", "call")) = 3
    /\ Cardinality(Events("sleep", "call")) = 2
    /\ \E r \in Events("_call_openai", "return") : log[r].value = report_data

\* the positions in log where a report text was formatted
Formatted ==
    {i \in DOMAIN log : log[i].fn \in {"format_report", "format_fallback_report"}}

====
